---- MODULE Spec2Model ----
(***************************************************************************)
(* Model of examples/docs_snippets/docs_snippets/integrations/dbt/dbt.py.  *)
(*                                                                         *)
(* The file is a list of scope_* functions.  Each binds local names only   *)
(* and returns None.  The model keeps the world the snippets read          *)
(* (EXECUTION_ENV, the manifest file, the SQL store), the position and the *)
(* locals of the snippet being run, the external calls it has made, and    *)
(* the launches of the schedules it has defined.                           *)
(***************************************************************************)
EXTENDS Integers, Sequences, FiniteSets, TLC

VARIABLES
    env,        \* value of the environment variable EXECUTION_ENV
    fs,         \* what is found at path/to/dbt/manifest.json
    store,      \* the database behind connection_str: table name -> contents
    module,     \* names bound at module level besides the scope_* functions
    manager,    \* the fields of the PandasIOManager instance
    cur,        \* the scope_* function being run, or "idle"
    pc,         \* position inside it
    frame,      \* its local names
    file,       \* state of the handle f of the with statement
    pending,    \* exception in flight inside the with block
    exc,        \* exception that left the snippet
    ret,        \* value returned by the last finished call
    calls,      \* external calls made by the running snippet, in order
    launches,   \* runs launched by the schedules of the running snippet
    io,         \* last operation of PandasIOManager and its outcome
    op          \* name of the last step taken

vars == <<env, fs, store, module, manager, cur, pc, frame, file, pending, exc, ret,
          calls, launches, io, op>>

world == <<env, fs, store, module>>

\* ------------------------------------------------------------------ bounds
MaxAssets == 3      \* assets in the dbt_assets passed to scope_schedule_assets
MaxTicks == 3       \* schedule ticks observed on one Definitions
MaxPathLen == 2     \* components of an asset key path

\* ------------------------------------------------------- python values
None == [t |-> "None"]
Str(s) == [t |-> "str", v |-> s]
NoLocals == [n \in {} |-> n]
NoExc == "none"
NoIO == [kind |-> "none"]

\* a == b of python for an Optional[str] against a str literal
PyEq(a, lit) == a.t = "str" /\ a.v = lit

\* os.getenv(name): the value, or None when the variable is unset
GetEnv(e) == e

EnvValues == {None, Str("prod"), Str("PROD"), Str("prod "), Str("production"),
              Str("dev"), Str("")}

\* ------------------------------------------------------- external results
\* what load_assets_from_dbt_project / load_assets_from_dbt_manifest return
ProjectAssets(arg, opts) == [kind |-> "dbt_assets", from |-> "project", arg |-> arg, opts |-> opts]
ManifestAssets(m) == [kind |-> "dbt_assets", from |-> "manifest", arg |-> m]
NoOpts == [n \in {} |-> n]
Ellipsis == "..."

Call(fn, arg) == [fn |-> fn, arg |-> arg]

\* ------------------------------------------------------- asset names
\* A name is the sequence of its characters, so that a prefix is a prefix.
order_stats == <<"o","r","d","e","r","_","s","t","a","t","s">>
order_stats_eu == order_stats \o <<"_","e","u">>
orders == <<"o","r","d","e","r","s">>
customers == <<"c","u","s","t","o","m","e","r","s">>
AssetNames == {order_stats, order_stats_eu, orders, customers}

\* str.startswith
StartsWith(s, p) == Len(s) >= Len(p) /\ SubSeq(s, 1, Len(p)) = p

\* An asset graph: the asset names and the (upstream, downstream) pairs.
Reach1(deps, a) == {e[2] : e \in {d \in deps : d[1] = a}}

RECURSIVE ReachAll(_, _, _)
ReachAll(deps, seen, frontier) ==
    IF frontier = {} THEN seen
    ELSE LET next == UNION {Reach1(deps, a) : a \in frontier} \ seen
         IN ReachAll(deps, seen \cup next, next)

Acyclic(assets, deps) == \A a \in assets : a \notin ReachAll(deps, {}, {a})

SmallSubsets(S, n) == {T \in SUBSET S : Cardinality(T) <= n}

Graphs ==
    UNION {{[assets |-> A, deps |-> D] :
              D \in {D \in SUBSET {e \in A \X A : e[1] # e[2]} : Acyclic(A, D)}} :
           A \in SmallSubsets(AssetNames, MaxAssets)}

\* ------------------------------------------------------- asset selection
\* define_asset_job(name, selection): "*" is every asset; "key*" is the asset
\* key and, by the comment of the source, its children.
SelAll == <<"*">>
SelOrderStats == order_stats \o <<"*">>

ParseSelection(sel) ==
    IF sel = SelAll THEN [all |-> TRUE, key |-> <<>>, down |-> FALSE]
    ELSE IF Len(sel) > 0 /\ sel[Len(sel)] = "*"
         THEN [all |-> FALSE, key |-> SubSeq(sel, 1, Len(sel) - 1), down |-> TRUE]
         ELSE [all |-> FALSE, key |-> sel, down |-> FALSE]

\* the assets downstream of the roots, layer after layer
DownstreamOneLayer(g, roots) == roots \cup (UNION {Reach1(g.deps, a) : a \in roots} \cap g.assets)

Downstream(g, roots) == ReachAll(g.deps, roots, roots) \cap g.assets

SelectByPrefix(sel, g) ==
    LET p == ParseSelection(sel)
    IN IF p.all THEN g.assets ELSE {a \in g.assets : StartsWith(a, p.key)}

Select(sel, g) ==
    LET p == ParseSelection(sel)
        roots == {a \in g.assets : a = p.key}
    IN IF p.all THEN g.assets
       ELSE IF p.down THEN Downstream(g, roots) ELSE roots

define_asset_job(name, selection) == [name |-> name, selection |-> selection]

run_everything_job == define_asset_job("run_everything", SelAll)

run_something_job == define_asset_job("run_something", SelOrderStats)

ScheduleDefinition(job, cron_schedule) == [job |-> job, cron_schedule |-> cron_schedule]

SwappedSchedules ==
    << ScheduleDefinition(run_everything_job, "@daily"),
       ScheduleDefinition(run_something_job, "@weekly") >>

ScheduleList ==
    << ScheduleDefinition(run_something_job, "@daily"),
       ScheduleDefinition(run_everything_job, "@weekly") >>

ScheduleDefs(dbt_assets) == [assets |-> dbt_assets, schedules |-> ScheduleList]

\* the assets a job of a Definitions targets
JobAssets(defs, job) == Select(job.selection, defs.assets)

\* ------------------------------------------------------- resources
\* a dict display {k1: v1, k2: v2}: a later item with the same key wins
DictKeys(items) == {items[i][1] : i \in DOMAIN items}

DictLiteral(items) ==
    [k \in DictKeys(items) |->
        LET last == CHOOSE i \in DOMAIN items :
                        items[i][1] = k /\ \A j \in DOMAIN items : items[j][1] = k => j <= i
        IN items[last][2]]

DbtCli(project_dir, target) == [class |-> "DbtCli", project_dir |-> project_dir, target |-> target]

PandasIOManagerStub(connection_str) == [class |-> "PandasIOManager"]

Definitions(assets, resources) == [assets |-> assets, resources |-> resources]

DBT_PROJECT_PATH == "path/to/dbt_project"

DbtTargetInverted(e) == IF PyEq(GetEnv(e), "prod") THEN "duckdb" ELSE "hive"

DbtTarget(e) == IF PyEq(GetEnv(e), "prod") THEN "hive" ELSE "duckdb"

CliResourceDefs(e) ==
    Definitions(ProjectAssets(DBT_PROJECT_PATH, NoOpts),
                DictLiteral(<< <<"dbt", DbtCli(DBT_PROJECT_PATH, DbtTarget(e))>> >>))

ResourceItemsRenamed ==
    << <<"dbt", DbtCli("path/to/dbt_project", None)>>,
       <<"dbt", PandasIOManagerStub(Ellipsis)>> >>

ResourceItems ==
    << <<"dbt", DbtCli("path/to/dbt_project", None)>>,
       <<"pandas_df_manager", PandasIOManagerStub(Ellipsis)>> >>

InputManagerResourcesDefs ==
    Definitions(ProjectAssets(Ellipsis, NoOpts), DictLiteral(ResourceItems))

AssetIn(input_manager_key) == [input_manager_key |-> input_manager_key]

my_downstream_asset ==
    [kind |-> "asset", name |-> "my_downstream_asset",
     ins |-> [my_dbt_model |-> AssetIn("pandas_df_manager")]]

\* @asset(key_prefix=...) def name(): the key is the prefix then the name
AssetKey(key_prefix, name) == [path |-> <<key_prefix, name>>]

upstream_orders == [kind |-> "asset", name |-> "orders", key |-> AssetKey("jaffle_shop", "orders")]

\* the resource an input with this input manager key is loaded by
ResolveInputManager(resources, key) == {resources[k] : k \in {key} \cap DOMAIN resources}

\* ------------------------------------------------------- PandasIOManager
\* class PandasIOManager(ConfigurableIOManager): one field
PandasIOManager(connection_str) == [connection_str |-> connection_str]

Tables == {"orders", "customers"}
Contents == {"rows_1", "rows_2"}
Absent == "absent"
Components == {"jaffle_shop", "snowflake", "orders", "customers"}

RECURSIVE SeqsUpTo(_, _)
SeqsUpTo(S, n) ==
    IF n = 0 THEN {<<>>}
    ELSE LET shorter == SeqsUpTo(S, n - 1)
         IN shorter \cup {Append(q, c) : q \in shorter, c \in S}

Paths == SeqsUpTo(Components, MaxPathLen) \ {<<>>}

Context(path) == [asset_key |-> [path |-> path]]

\* f"SELECT * FROM {table_name}"
Query(table_name) == <<"SELECT", "*", "FROM", table_name>>

TableNameFirst(context) == context.asset_key.path[1]

TableName(context) == context.asset_key.path[Len(context.asset_key.path)]

\* pd.read_sql(query, con): the rows of the table, or an error of the driver
ReadSql(query, db) ==
    IF query[4] \in DOMAIN db /\ db[query[4]] # Absent
    THEN [ok |-> TRUE, value |-> db[query[4]]]
    ELSE [ok |-> FALSE, exc |-> "DatabaseError"]

LoadInputResult(context, db) == ReadSql(Query(TableName(context)), db)

HandleOutputWrites(db, context, obj) ==
    IF TableName(context) \in DOMAIN db
    THEN [db EXCEPT ![TableName(context)] = obj] ELSE db

HandleOutputStore(db, context, obj) == db

\* ------------------------------------------------------- manifest file
FsStates == {"missing", "not_json", "not_manifest", "manifest"}
MANIFEST_PATH == "path/to/dbt/manifest.json"

\* open(path): a handle, or FileNotFoundError
OpenResult(f) ==
    IF f = "missing" THEN [ok |-> FALSE, exc |-> "FileNotFoundError"] ELSE [ok |-> TRUE]

JsonLoadFallback(f) == [ok |-> TRUE, value |-> "empty_dict"]

\* json.load(f): the parsed document, or JSONDecodeError
JsonLoadResult(f) ==
    IF f = "not_json" THEN [ok |-> FALSE, exc |-> "JSONDecodeError"]
    ELSE [ok |-> TRUE, value |-> IF f = "manifest" THEN "manifest_dict" ELSE "other_dict"]

\* the handle when the with block is left, normally or by an exception
FileAfterExitLeak(handle, inflight) == IF inflight = NoExc THEN "closed" ELSE handle

FileAfterExit(handle, inflight) == "closed"

\* load_assets_from_dbt_manifest(manifest_json)
LoadManifestResult(m) ==
    IF m = "manifest_dict" THEN [ok |-> TRUE, value |-> ManifestAssets(m)]
    ELSE [ok |-> FALSE, exc |-> "DagsterDbtError"]

\* names a snippet binds at module level: none, every name is a local
ModuleAfterPublishing(m, locals) == locals

ModuleAfter(m, locals) == m

\* ------------------------------------------------------- initial state
Idle ==
    /\ cur = "idle" /\ pc = "idle" /\ frame = NoLocals /\ file = "none"
    /\ pending = NoExc /\ exc = NoExc /\ calls = <<>> /\ launches = <<>> /\ io = NoIO

Init ==
    /\ env \in EnvValues
    /\ fs \in FsStates
    /\ store \in [Tables -> Contents \cup {Absent}]
    /\ module = NoLocals
    /\ manager = PandasIOManager(Ellipsis)
    /\ Idle
    /\ ret = None
    /\ op = "init"

\* ------------------------------------------------------- steps
\* A snippet that is one straight line of calls ends with its locals bound,
\* or the first failing external call raises out of it.
Ended(locals, log) == [pc |-> "end", frame |-> locals, calls |-> log, exc |-> NoExc]

Raised(locals, log, e) == [pc |-> "raised", frame |-> locals, calls |-> log, exc |-> e]

Run(name, outcomes) ==
    \E o \in outcomes :
        /\ cur' = name /\ pc' = o.pc /\ frame' = o.frame /\ calls' = o.calls
        /\ exc' = o.exc
        /\ module' = IF o.pc = "end" THEN ModuleAfter(module, o.frame) ELSE module
        /\ op' = name
        /\ UNCHANGED <<manager, env, fs, store, file, pending, ret, launches, io>>

scope_load_assets_from_dbt_project ==
    /\ cur = "idle"
    /\ LET c == Call("load_assets_from_dbt_project", [project_dir |-> "path/to/dbt/project"])
       IN Run("scope_load_assets_from_dbt_project",
              {Ended([dbt_assets |-> ProjectAssets("path/to/dbt/project", NoOpts)], <<c>>),
               Raised(NoLocals, <<c>>, "DagsterDbtError")})

scope_dbt_cli_resource_config ==
    /\ cur = "idle"
    /\ LET c == Call("load_assets_from_dbt_project", DBT_PROJECT_PATH)
           early == [DBT_PROJECT_PATH |-> DBT_PROJECT_PATH, DBT_TARGET |-> DbtTarget(env)]
       IN Run("scope_dbt_cli_resource_config",
              {Ended([DBT_PROJECT_PATH |-> DBT_PROJECT_PATH, DBT_TARGET |-> DbtTarget(env),
                      defs |-> CliResourceDefs(env)],
                     <<c, Call("DbtCli", [project_dir |-> DBT_PROJECT_PATH,
                                          target |-> DbtTarget(env)])>>),
               Raised(early, <<c>>, "DagsterDbtError")})

scope_schedule_assets ==
    /\ cur = "idle"
    /\ \E dbt_assets \in Graphs :
          Run("scope_schedule_assets",
              {Ended([dbt_assets |-> dbt_assets,
                      run_everything_job |-> run_everything_job,
                      run_something_job |-> run_something_job,
                      defs |-> ScheduleDefs(dbt_assets)],
                     <<>>)})

scope_downstream_asset ==
    /\ cur = "idle"
    /\ Run("scope_downstream_asset",
           {Ended([my_downstream_asset |-> my_downstream_asset], <<>>)})

scope_upstream_asset ==
    /\ cur = "idle"
    /\ Run("scope_upstream_asset", {Ended([orders |-> upstream_orders], <<>>)})

scope_input_manager ==
    /\ cur = "idle"
    /\ Run("scope_input_manager", {Ended([PandasIOManager |-> "class"], <<>>)})

scope_input_manager_resources ==
    /\ cur = "idle"
    /\ LET c == Call("load_assets_from_dbt_project", Ellipsis)
       IN Run("scope_input_manager_resources",
              {Ended([PandasIOManager |-> "class", defs |-> InputManagerResourcesDefs], <<c>>),
               Raised([PandasIOManager |-> "class"], <<c>>, "DagsterDbtError")})

scope_key_prefixes ==
    /\ cur = "idle"
    /\ LET c1 == Call("load_assets_from_dbt_project", [key_prefix |-> "snowflake"])
           c2 == Call("load_assets_from_dbt_project", [source_key_prefix |-> "snowflake"])
           a1 == ProjectAssets("path/to/dbt_project", [key_prefix |-> "snowflake"])
           a2 == ProjectAssets("path/to/dbt_project", [source_key_prefix |-> "snowflake"])
       IN Run("scope_key_prefixes",
              {Ended([dbt_assets |-> a2], <<c1, c2>>),
               Raised(NoLocals, <<c1>>, "DagsterDbtError"),
               Raised([dbt_assets |-> a1], <<c1, c2>>, "DagsterDbtError")})

\* scope_load_assets_from_dbt_manifest, statement by statement
Manifest == "scope_load_assets_from_dbt_manifest"

ManifestCall ==
    /\ cur = "idle"
    /\ cur' = Manifest /\ pc' = "open" /\ frame' = NoLocals /\ calls' = <<>>
    /\ op' = "call"
    /\ UNCHANGED <<manager, env, fs, store, module, file, pending, exc, ret, launches, io>>

ManifestOpen ==
    /\ cur = Manifest /\ pc = "open"
    /\ calls' = Append(calls, Call("open", MANIFEST_PATH))
    /\ IF OpenResult(fs).ok
       THEN /\ file' = "open" /\ frame' = [f |-> "handle"] /\ pc' = "json_load"
            /\ UNCHANGED exc
       ELSE /\ exc' = OpenResult(fs).exc /\ pc' = "raised"
            /\ UNCHANGED <<file, frame>>
    /\ op' = "open"
    /\ UNCHANGED <<manager, env, fs, store, module, cur, pending, ret, launches, io>>

ManifestJsonLoad ==
    /\ cur = Manifest /\ pc = "json_load"
    /\ calls' = Append(calls, Call("json.load", "f"))
    /\ IF JsonLoadResult(fs).ok
       THEN /\ frame' = [f |-> "handle", manifest_json |-> JsonLoadResult(fs).value]
            /\ UNCHANGED pending
       ELSE /\ pending' = JsonLoadResult(fs).exc
            /\ UNCHANGED frame
    /\ pc' = "with_exit"
    /\ op' = "json.load"
    /\ UNCHANGED <<manager, env, fs, store, module, cur, file, exc, ret, launches, io>>

\* f.__exit__: closes the file and does not swallow the exception
ManifestWithExit ==
    /\ cur = Manifest /\ pc = "with_exit"
    /\ file' = FileAfterExit(file, pending)
    /\ IF pending = NoExc
       THEN pc' = "load_assets" /\ UNCHANGED exc
       ELSE pc' = "raised" /\ exc' = pending
    /\ pending' = NoExc
    /\ op' = "with_exit"
    /\ UNCHANGED <<manager, env, fs, store, module, cur, frame, calls, ret, launches, io>>

ManifestLoadAssets ==
    /\ cur = Manifest /\ pc = "load_assets"
    /\ LET r == LoadManifestResult(frame.manifest_json)
       IN /\ calls' = Append(calls, Call("load_assets_from_dbt_manifest", frame.manifest_json))
          /\ IF r.ok
             THEN /\ frame' = [f |-> frame.f, manifest_json |-> frame.manifest_json,
                               dbt_assets |-> r.value]
                  /\ pc' = "end" /\ UNCHANGED exc
                  /\ module' = ModuleAfter(module, frame')
             ELSE /\ exc' = r.exc /\ pc' = "raised" /\ UNCHANGED <<frame, module>>
    /\ op' = "load_assets_from_dbt_manifest"
    /\ UNCHANGED <<manager, env, fs, store, cur, file, pending, ret, launches, io>>

\* the two operations of PandasIOManager, called with a context
IOManager == "PandasIOManager"

handle_output ==
    /\ cur = "idle"
    /\ \E path \in Paths, obj \in Contents :
          /\ store' = HandleOutputStore(store, Context(path), obj)
          /\ io' = [kind |-> "handle_output", path |-> path, obj |-> obj]
    /\ cur' = IOManager /\ pc' = "end" /\ ret' = None
    /\ op' = "handle_output"
    /\ UNCHANGED <<manager, env, fs, module, frame, file, pending, exc, calls, launches>>

load_input ==
    /\ cur = "idle"
    /\ \E path \in Paths :
          LET table_name == TableName(Context(path))
              r == ReadSql(Query(table_name), store)
          IN /\ calls' = <<Call("pd.read_sql", Query(table_name))>>
             /\ frame' = [table_name |-> table_name]
             /\ IF r.ok
                THEN /\ io' = [kind |-> "load_input", path |-> path, value |-> r.value]
                     /\ pc' = "end" /\ UNCHANGED exc
                ELSE /\ io' = [kind |-> "load_input", path |-> path]
                     /\ pc' = "raised" /\ exc' = r.exc
    /\ cur' = IOManager
    /\ op' = "load_input"
    /\ UNCHANGED <<manager, env, fs, store, module, file, pending, ret, launches>>

\* dbt materialises a table ("dbt handles outputs for us")
DbtRun ==
    /\ cur = "idle"
    /\ \E t \in Tables, c \in Contents : store' = [store EXCEPT ![t] = c]
    /\ op' = "dbt_run"
    /\ UNCHANGED <<manager, env, fs, module, cur, pc, frame, file, pending, exc, ret, calls,
                   launches, io>>

\* the call is over: the locals are gone; a snippet returns None, load_input
\* its DataFrame, and an exception has reached the caller
Leave ==
    /\ pc \in {"end", "raised"}
    /\ ret' = IF pc = "end" /\ io.kind = "load_input" THEN Str(io.value) ELSE None
    /\ cur' = "idle" /\ pc' = "idle" /\ frame' = NoLocals /\ file' = "none"
    /\ pending' = NoExc /\ exc' = NoExc /\ calls' = <<>> /\ launches' = <<>> /\ io' = NoIO
    /\ op' = "leave"
    /\ UNCHANGED <<manager, env, fs, store, module>>

\* a schedule of the Definitions fires and launches its job
Launch(schedule, defs) ==
    [cron_schedule |-> schedule.cron_schedule, job |-> schedule.job.name,
     assets |-> JobAssets(defs, schedule.job)]

Tick ==
    /\ cur = "scope_schedule_assets" /\ pc = "end"
    /\ Len(launches) < MaxTicks
    /\ \E i \in DOMAIN frame.defs.schedules :
          launches' = Append(launches, Launch(frame.defs.schedules[i], frame.defs))
    /\ op' = "tick"
    /\ UNCHANGED <<manager, env, fs, store, module, cur, pc, frame, file, pending, exc, ret,
                   calls, io>>

\* ------------------------------------------------------- specifications
Next ==
    \/ scope_load_assets_from_dbt_project
    \/ ManifestCall
    \/ ManifestOpen
    \/ ManifestJsonLoad
    \/ ManifestWithExit
    \/ ManifestLoadAssets
    \/ scope_dbt_cli_resource_config
    \/ scope_schedule_assets
    \/ scope_downstream_asset
    \/ scope_upstream_asset
    \/ scope_input_manager
    \/ scope_input_manager_resources
    \/ scope_key_prefixes
    \/ handle_output
    \/ load_input
    \/ DbtRun
    \/ Leave

Spec == Init /\ [][Next]_vars

\* the schedules of scope_schedule_assets under ticks, in one fixed world
InitSchedule ==
    /\ env = None
    /\ fs = "manifest"
    /\ store = [t \in Tables |-> Absent]
    /\ module = NoLocals
    /\ manager = PandasIOManager(Ellipsis)
    /\ Idle
    /\ ret = None
    /\ op = "init"

NextSchedule ==
    \/ scope_schedule_assets
    \/ Tick
    \/ Leave

SpecSchedule == InitSchedule /\ [][NextSchedule]_vars

\* ------------------------------------------------------- properties
ScopeNames ==
    {"scope_load_assets_from_dbt_project", Manifest, "scope_dbt_cli_resource_config",
     "scope_schedule_assets", "scope_downstream_asset", "scope_upstream_asset",
     "scope_input_manager", "scope_input_manager_resources", "scope_key_prefixes"}

AtEnd(name) == cur = name /\ pc = "end"

CallNames == [i \in DOMAIN calls |-> calls[i].fn]

\* C1: the DbtCli resource of scope_dbt_cli_resource_config has target "hive"
\* exactly when EXECUTION_ENV is the string "prod", and "duckdb" for every
\* other value and when unset; its project_dir and the path the assets are
\* loaded from are both DBT_PROJECT_PATH.
C1_TargetFollowsEnv ==
    AtEnd("scope_dbt_cli_resource_config") =>
        LET dbt == frame.defs.resources["dbt"]
        IN /\ (dbt.target = "hive") <=> (env = Str("prod"))
           /\ env # Str("prod") => dbt.target = "duckdb"
           /\ dbt.project_dir = "path/to/dbt_project"
           /\ frame.defs.assets.arg = dbt.project_dir
           /\ calls[1] = Call("load_assets_from_dbt_project", dbt.project_dir)

C1_Witness ==
    /\ AtEnd("scope_dbt_cli_resource_config")
    /\ env = Str("prod")
    /\ frame.defs.resources["dbt"].target = "hive"

\* C2: the Definitions of scope_schedule_assets hold exactly the schedules
\* (run_something, @daily) and (run_everything, @weekly), and every launch of
\* the daily schedule is of run_something, every launch of the weekly one of
\* run_everything.
C2_SchedulesLaunchOwnJob ==
    cur = "scope_schedule_assets" =>
        /\ Len(frame.defs.schedules) = 2
        /\ {<<frame.defs.schedules[i].job.name, frame.defs.schedules[i].cron_schedule>> :
               i \in DOMAIN frame.defs.schedules}
             = {<<"run_something", "@daily">>, <<"run_everything", "@weekly">>}
        /\ \A i \in DOMAIN launches :
              /\ launches[i].cron_schedule = "@daily" => launches[i].job = "run_something"
              /\ launches[i].cron_schedule = "@weekly" => launches[i].job = "run_everything"

C2_Witness ==
    /\ cur = "scope_schedule_assets"
    /\ Len(launches) = MaxTicks
    /\ \E i, j \in DOMAIN launches :
          launches[i].cron_schedule = "@daily" /\ launches[j].cron_schedule = "@weekly"

\* there is a chain of dependencies from asset a to asset b inside the graph
Chain(g, a, b) ==
    \E p \in SeqsUpTo(g.assets, Cardinality(g.assets)) :
        /\ Len(p) >= 1 /\ p[1] = a /\ p[Len(p)] = b
        /\ \A i \in 1..(Len(p) - 1) : <<p[i], p[i + 1]>> \in g.deps

\* C3 as stated: the selection "order_stats*" of run_something selects the
\* assets whose name starts with "order_stats".
C3_SelectsByNamePrefix ==
    AtEnd("scope_schedule_assets") =>
        JobAssets(frame.defs, frame.run_something_job)
          = {a \in frame.dbt_assets.assets : StartsWith(a, order_stats)}

\* C3 as amended: the selection "order_stats*" of run_something selects the
\* asset named order_stats and every asset reached from it along a chain of
\* dependencies, whatever the names are.
C3_SelectsDownstream ==
    AtEnd("scope_schedule_assets") =>
        JobAssets(frame.defs, frame.run_something_job)
          = {a \in frame.dbt_assets.assets :
                order_stats \in frame.dbt_assets.assets /\ Chain(frame.dbt_assets, order_stats, a)}

C3_Witness ==
    /\ AtEnd("scope_schedule_assets")
    /\ order_stats_eu \in frame.dbt_assets.assets
    /\ order_stats_eu \notin JobAssets(frame.defs, frame.run_something_job)
    /\ customers \in JobAssets(frame.defs, frame.run_something_job)

\* C4: for every asset graph, run_something targets order_stats and assets
\* that have a targeted asset directly upstream of them, and nothing else;
\* run_everything targets every asset; so the first set is inside the second.
C4_SomethingWithinEverything ==
    AtEnd("scope_schedule_assets") =>
        LET some == JobAssets(frame.defs, frame.run_something_job)
            every == JobAssets(frame.defs, frame.run_everything_job)
            g == frame.dbt_assets
        IN /\ \A a \in some :
                 /\ a \in g.assets
                 /\ a = order_stats \/ \E b \in some : <<b, a>> \in g.deps
           /\ every = g.assets
           /\ some \subseteq every
           /\ frame.run_something_job.name = "run_something"
           /\ frame.run_everything_job.name = "run_everything"

C4_Witness ==
    /\ AtEnd("scope_schedule_assets")
    /\ Cardinality(JobAssets(frame.defs, frame.run_something_job)) = 2
    /\ Cardinality(JobAssets(frame.defs, frame.run_everything_job)) = 3
    /\ order_stats_eu \in frame.dbt_assets.assets
    /\ order_stats_eu \notin JobAssets(frame.defs, frame.run_something_job)

LastOf(path) == path[Len(path)]

\* C5: load_input runs "SELECT * FROM <last component of the asset key path>"
\* and nothing else; what it returns is the contents of that table, so the
\* components before the last do not matter, and for the key of the upstream
\* asset, ["jaffle_shop", "orders"], the table read is "orders".
C5_LoadInputReadsLastComponent ==
    (cur = IOManager /\ io.kind = "load_input") =>
        /\ calls = <<Call("pd.read_sql", <<"SELECT", "*", "FROM", LastOf(io.path)>>)>>
        /\ pc = "end" => LastOf(io.path) \in Tables /\ io.value = store[LastOf(io.path)]
        /\ io.path = upstream_orders.key.path => frame.table_name = "orders"

C5_Witness ==
    /\ cur = IOManager /\ io.kind = "load_input" /\ pc = "end"
    /\ io.path = <<"jaffle_shop", "orders">>
    /\ calls[1].arg[4] = "orders"
    /\ io.value = store["orders"]

\* C6: a step of a scope_* function changes neither the environment, the
\* manifest file, the store nor the manager, and binds no module-level name;
\* a scope_* function returns None; the assets of the Definitions of
\* scope_schedule_assets are its own parameter.
C6_NoFlowBetweenSnippets ==
    [][ (cur \in ScopeNames \/ cur' \in ScopeNames) =>
            /\ world' = world /\ manager' = manager
            /\ module' = NoLocals
            /\ (cur' = "idle" => ret' = None)
            /\ (cur' = "scope_schedule_assets" => frame'.defs.assets = frame'.dbt_assets) ]_vars

C6_Witness ==
    /\ AtEnd("scope_schedule_assets")
    /\ frame.dbt_assets.deps # {}
    /\ module = NoLocals
    /\ ret # None

\* C7: a failing external call leaves the snippet as the exception it raised:
\* after a failed open nothing else is called, after a failed json.load
\* load_assets_from_dbt_manifest is never called, after a failed load no
\* dbt_assets is bound; a failed read in load_input yields no value.
C7_FailuresPropagate ==
    /\ cur = Manifest =>
          /\ (fs = "missing" /\ pc # "open") =>
                /\ pc = "raised" /\ exc = "FileNotFoundError"
                /\ CallNames = <<"open">> /\ frame = NoLocals
          /\ (fs = "not_json" /\ pc \notin {"open", "json_load"}) =>
                /\ \/ pc = "with_exit" /\ pending = "JSONDecodeError"
                   \/ pc = "raised" /\ exc = "JSONDecodeError"
                /\ CallNames = <<"open", "json.load">>
                /\ DOMAIN frame = {"f"}
          /\ (fs = "not_manifest" /\ pc \notin {"open", "json_load", "with_exit", "load_assets"}) =>
                /\ pc = "raised" /\ exc = "DagsterDbtError"
                /\ "dbt_assets" \notin DOMAIN frame
          /\ pc = "end" => fs = "manifest" /\ exc = NoExc
    /\ (cur = IOManager /\ io.kind = "load_input"
           /\ (LastOf(io.path) \notin Tables \/ store[LastOf(io.path)] = Absent)) =>
          pc = "raised" /\ exc = "DatabaseError" /\ "value" \notin DOMAIN io

C7_Witness ==
    /\ cur = Manifest /\ fs = "not_json"
    /\ pc = "raised" /\ exc = "JSONDecodeError"
    /\ Len(calls) = 2

\* C8: a call of handle_output leaves the store and the manager as they
\* were, so load_input gives for every asset key what it gave before.
C8_HandleOutputWritesNothing ==
    [][ op' = "handle_output" =>
            /\ store' = store /\ manager' = manager
            /\ \A path \in Paths :
                  LoadInputResult(Context(path), store') = LoadInputResult(Context(path), store) ]_vars

C8_Witness ==
    /\ op = "handle_output" /\ io.kind = "handle_output"
    /\ LastOf(io.path) \in Tables
    /\ store[LastOf(io.path)] # io.obj

\* C9: in scope_load_assets_from_dbt_manifest the calls are open, json.load,
\* load_assets_from_dbt_manifest in this order, the file is closed before
\* the last of them, and it is not open when the snippet is over, normally
\* or by an exception.
C9_FileClosedBeforeLoad ==
    cur = Manifest =>
        /\ \E n \in 0..3 :
              CallNames = SubSeq(<<"open", "json.load", "load_assets_from_dbt_manifest">>, 1, n)
        /\ pc = "load_assets" => file = "closed"
        /\ Len(calls) = 3 => file = "closed"
        /\ pc \in {"end", "raised"} => file # "open"
        /\ file = "open" => pc \in {"json_load", "with_exit"}

C9_Witness ==
    /\ cur = Manifest /\ pc = "raised"
    /\ CallNames = <<"open", "json.load">>
    /\ file = "closed"

\* C10: the input manager key of the input my_dbt_model of
\* my_downstream_asset is a key of the resources of
\* scope_input_manager_resources, bound there to a PandasIOManager; the keys
\* written in the mapping are distinct, so the input resolves to exactly one
\* resource, which is not the DbtCli.
C10_InputManagerKeyResolves ==
    /\ AtEnd("scope_downstream_asset") =>
          frame.my_downstream_asset.ins.my_dbt_model.input_manager_key = "pandas_df_manager"
    /\ AtEnd("scope_input_manager_resources") =>
          LET key == my_downstream_asset.ins.my_dbt_model.input_manager_key
              found == ResolveInputManager(frame.defs.resources, key)
          IN /\ key \in DOMAIN frame.defs.resources
             /\ DOMAIN frame.defs.resources = {"dbt", "pandas_df_manager"}
             /\ Cardinality(DictKeys(ResourceItems)) = Len(ResourceItems)
             /\ Cardinality(found) = 1
             /\ \A r \in found : r.class = "PandasIOManager"
             /\ frame.defs.resources["dbt"].class = "DbtCli"

C10_Witness ==
    /\ AtEnd("scope_input_manager_resources")
    /\ "pandas_df_manager" \in DOMAIN frame.defs.resources
    /\ frame.defs.resources["pandas_df_manager"].class = "PandasIOManager"
====
